---- MODULE Spec2Model ----
(***************************************************************************)
(* State-machine model of src/shipping.py: the retrying HTTP fetcher       *)
(* (_request_with_retry), the dual-mode pagination cursor                  *)
(* (iter_products_batches), the flattener (_safe_str, _join_tags,          *)
(* _join_carts, base_product_cols, rows_for_warehouses), the cleaning      *)
(* functions (clean_products_df, clean_wh_df) and the snapshot             *)
(* orchestrator (main) with its run-scoped identity sets.                  *)
(*                                                                         *)
(* Spec is a run of main.  SpecCall is one call of a helper function       *)
(* (_join_tags, _join_carts, clean_products_df, clean_wh_df) on its own.   *)
(*                                                                         *)
(* Python values are represented as follows.  A mapping (dict) is a TLA+   *)
(* record whose DOMAIN is the set of keys present; d.get(k) is Get(d, k).  *)
(* None is the string None.  Scalars (ids, skus, stamps) are strings.  A   *)
(* decoded JSON payload is tagged: [t |-> "list", items |-> <<...>>] or    *)
(* [t |-> "dict", m |-> <mapping>]; values stored under the keys of a      *)
(* payload mapping are tagged the same way ([t |-> "str"] for a non-list). *)
(* The values of the fields tags, carts and of the quantity fields are     *)
(* tagged with their Python type (PyNone, PyStr, ...), and a text is a     *)
(* sequence of characters, so that replacing, joining, stripping and       *)
(* parsing are computed character by character.                            *)
(***************************************************************************)
EXTENDS Integers, Sequences, FiniteSets, TLC

\* ---------------------------------------------------------------- bounds
\* Longest source (number of raw records the API holds).
MaxRecords == 3
\* Longest source of pairwise distinct records (the sources that may stall).
MaxOrdered == 5
\* Largest page size (PAGE_LIMIT is read from the environment).
MaxLimit == 2
\* Largest number of fetches (iterations of the cursor loop) explored.
MaxFetches == 5

\* Longest list of tags or carts a helper is called with.
MaxElems == 2
\* Largest number of rows of a frame a cleaning function is called with.
MaxRows == 2

\* MAX_RETRIES is read from the environment (default 5); the retry loop is
\* explored with this many retries.
MAX_RETRIES == 2

\* ------------------------------------------------------ program constants
\* BACKOFF_BASE = 1.4, kept exact as the fraction BACKOFF_NUM / BACKOFF_DEN.
BACKOFF_NUM == 14
BACKOFF_DEN == 10
FILTER_ARCHIVED == FALSE

\* Python's None.
None == "<None>"

\* d.get(k) on a mapping d.
Get(d, k) == IF k \in DOMAIN d THEN d[k] ELSE None

Min(a, b) == IF a < b THEN a ELSE b

\* Values of the fields whose Python type the code inspects (tags, carts,
\* quantities) are tagged with their type.  A text is a sequence of
\* characters.
PyNone == [t |-> "none"]
PyStr(s) == [t |-> "str", s |-> s]
PyBool(b) == [t |-> "bool", b |-> b]
PyNum(tenths) == [t |-> "num", tenths |-> tenths]
PyList(items) == [t |-> "list", items |-> items]
PyDict(m) == [t |-> "dict", m |-> m]

\* d.get(k) for a field that holds a tagged value.
GetV(d, k) == IF k \in DOMAIN d THEN d[k] ELSE PyNone

\* bool(v)
Truthy(v) ==
    CASE v.t = "none" -> FALSE
      [] v.t = "str" -> v.s # <<>>
      [] v.t = "bool" -> v.b
      [] v.t = "num" -> v.tenths # 0
      [] v.t = "list" -> v.items # <<>>
      [] v.t = "dict" -> DOMAIN v.m # {}

\* -------------------------------------------------------- the source API
\* Raw products.  A warehouse entry is a mapping (kind "dict") or something
\* else (kind "str", a malformed entry).
WhDict(id, upd) == [kind |-> "dict", id |-> id, updated |-> upd]
WhNoStamp(id) == [kind |-> "dict", id |-> id]
WhJunk == [kind |-> "str"]
Product(id, sku, whs) == [id |-> id, sku |-> sku, warehouses |-> whs]
NoIdProduct(sku, whs) == [sku |-> sku, warehouses |-> whs]
CartsProduct(id, sku, carts) == [id |-> id, sku |-> sku, carts |-> carts]

\* Records of the sources that exercise the cursor: ids that may repeat, a
\* null id.
PlainProducts ==
    { Product("p1", "a", <<>>), Product("p2", "a", <<>>), Product(None, "a", <<>>) }

\* The source of n records with pairwise distinct ids p1, p2, ...
IDS == << "p1", "p2", "p3", "p4", "p5", "p6" >>
OrderedRecords(n) == [i \in 1 .. n |-> Product(IDS[i], "a", <<>>)]

\* Records of the sources that exercise flattening and deduplication.
RichProducts ==
    { Product("p1", "a", << WhDict("w5", "t1") >>),
      Product("p1", "b", << WhDict("w5", "t2"), WhJunk, WhDict("w5", "t1") >>),
      Product("p2", "a", << WhNoStamp("w5"), WhDict("w5", "None"), WhNoStamp("w5") >>),
      Product(None, "a", << WhDict("w6", "t1") >>),
      NoIdProduct("b", << WhDict("w6", "t2") >>),
      CartsProduct("p2", "b", PyDict([vendor |-> PyStr(<< "v" >>)])) }

RECURSIVE SeqsUpTo(_, _)
SeqsUpTo(S, n) ==
    IF n = 0 THEN { <<>> }
    ELSE LET shorter == SeqsUpTo(S, n - 1)
         IN shorter \cup { Append(s, x) : s \in { t \in shorter : Len(t) = n - 1 }, x \in S }

\* Shapes of the decoded payload: a bare list; a mapping with the list under
\* "product"; a mapping whose "product" is not a list, whose "results" is the
\* list and whose "items" is another list; a bare single-record mapping (the
\* empty mapping when there is no record); a bare list from an API that
\* serves one record more than the limit asks for.
Shapes == { "list", "product", "results", "single", "overlong" }


VARIABLES
    \* the source API (fixed during a run)
    records,        \* the raw records the API holds, in source order
    shape,          \* the shape of every decoded payload
    stalls,         \* TRUE when offset pagination stops advancing
    stallK,         \* ... for every offset beyond stallK
    \* configuration
    limit_each,     \* PAGE_LIMIT, the page size main passes to the cursor
    \* main
    pc,             \* position of the single thread of control
    conn,           \* "none", "open" or "closed"
    error,          \* "none", or the failure that is propagating out of main
    seen_pid, seen_wh, prod_rows, wh_rows, prod_snap, wh_snap, batch_idx,
    rec_idx,        \* index in batch of the record the inner loop is at
    \* _request_with_retry
    params, attempt, r,
    sleeps,         \* the time.sleep() arguments of the current fetch
    \* iter_products_batches
    offset, last_first_id, use_page_mode, page, data, batch,
    \* the destination (external collaborator)
    prod_table, wh_table,
    truncs,         \* TRUNCATE statements executed
    closes,         \* conn.close() calls
    \* history
    reqlog,         \* params of every fetch issued, in order
    yielded,        \* every batch the cursor yielded, in order
    switches,       \* number of OFFSET -> PAGE transitions
    handed_prod, handed_wh, \* rows handed to _write_df, per table, in order
    \* one call of a helper function on its own
    call,           \* the function called ("none" during a run of main)
    arg,            \* its argument
    result          \* [state |-> "pending"], or [state |-> "returned",
                    \* value |-> v], or [state |-> "raised"]

source_vars == << records, shape, stalls, stallK, limit_each >>
main_vars == << seen_pid, seen_wh, prod_rows, wh_rows, prod_snap, wh_snap,
                batch_idx, rec_idx >>
fetch_vars == << params, attempt, r, sleeps >>
cursor_vars == << offset, last_first_id, use_page_mode, page, data, batch >>
dest_vars == << prod_table, wh_table, truncs, handed_prod, handed_wh >>
hist_vars == << reqlog, yielded, switches >>
call_vars == << call, arg, result >>
vars == << source_vars, pc, conn, error, main_vars, fetch_vars, cursor_vars,
           dest_vars, closes, hist_vars, call_vars >>

\* ------------------------------------------------- the source API, served
\* Up to n records of s starting at the 1-based position from.
Slice(s, from, n) == SubSeq(s, from, Min(Len(s), from + n - 1))

\* A stalling source ignores every offset beyond stallK.
ServeOffset(off, lim) ==
    LET eff == IF stalls /\ off > stallK THEN stallK ELSE off
    IN Slice(records, eff + 1, lim)

\* Pages are numbered from 1 and always served correctly.
ServePage(p, lim) == Slice(records, (p - 1) * lim + 1, lim)

EmptyMapping == [k \in {} |-> None]
DecoyProduct == Product("decoy", "a", <<>>)

Payload(recs) ==
    CASE shape \in { "list", "overlong" } -> [t |-> "list", items |-> recs]
      [] shape = "product" ->
            [t |-> "dict", m |-> [product |-> [t |-> "list", items |-> recs]]]
      [] shape = "results" ->
            [t |-> "dict",
             m |-> [product |-> [t |-> "str"],
                    results |-> [t |-> "list", items |-> recs],
                    items |-> [t |-> "list", items |-> << DecoyProduct >>]]]
      [] shape = "single" ->
            [t |-> "dict", m |-> IF recs = <<>> THEN EmptyMapping ELSE recs[1]]

\* The body of a response that is not JSON (a redirect that was not followed).
NotJson == [t |-> "notjson"]

\* The number of records the API serves for a request with limit lim.
Served(lim) == IF shape = "overlong" THEN lim + 1 ELSE lim

Respond(prm) ==
    Payload(IF prm.mode = "page" THEN ServePage(prm.value, Served(prm.limit))
            ELSE ServeOffset(prm.value, Served(prm.limit)))

\* Outcomes of one GET: a status code, or a transport failure (an exception
\* of requests, no response).  302 stands for a redirect whose Location is an
\* http:// URL.
TransportFailure == 0
Outcomes == { TransportFailure, 200, 302, 404, 429 }

\* ------------------------------------------------ _request_with_retry
RETRYABLE == { 429, 500, 502, 503, 504 }

\* r.raise_for_status(): an HTTPError for every 4xx and 5xx status.
raise_for_status(status) == status >= 400 /\ status < 600

\* The response r one iteration of the retry loop ends up with: the answer
\* to the second GET when the first is a redirect to an http:// Location.
FinalOutcome(first, second) == IF first = 302 THEN second ELSE first

\* TRUE when the try block raises a requests.RequestException for outcome o:
\* a transport failure, the HTTPError raised for a retryable status, or the
\* HTTPError of raise_for_status (HTTPError is a RequestException).
RaisesRequestException(o) ==
    \/ o = TransportFailure
    \/ o \in RETRYABLE
    \/ raise_for_status(o)

\* Faulty variant of RetriesExhausted: the cap compared off by one.
RetriesExhausted_OffByOne(a) == a > MAX_RETRIES + 1

\* if attempt > MAX_RETRIES: raise
RetriesExhausted(a) == a > MAX_RETRIES

RECURSIVE Pow(_, _)
Pow(b, k) == IF k = 0 THEN 1 ELSE b * Pow(b, k - 1)

\* BACKOFF_BASE ** attempt, as an exact fraction.
Backoff(k) == [num |-> Pow(BACKOFF_NUM, k), den |-> Pow(BACKOFF_DEN, k)]

\* ---------------------------------------------- iter_products_batches
KEYS == << "product", "products", "results", "data", "items" >>

IsDict(x) == x.t = "dict"
IsList(x) == x.t = "list"

\* Index in KEYS of the first key that is in mapping m and holds a list
\* (0 when there is none): the for loop with its break.
RECURSIVE FirstListKey(_, _)
FirstListKey(m, i) ==
    IF i > Len(KEYS) THEN 0
    ELSE IF KEYS[i] \in DOMAIN m /\ IsList(m[KEYS[i]]) THEN i
    ELSE FirstListKey(m, i + 1)

\* The batch taken from the decoded payload d.
ExtractBatch(d) ==
    IF IsDict(d) THEN
        LET i == FirstListKey(d.m, 1)
            found == IF i = 0 THEN <<>> ELSE d.m[KEYS[i]].items
        IN IF found = <<>> /\ DOMAIN d.m # {} THEN << d.m >> ELSE found
    ELSE IF IsList(d) THEN d.items
    ELSE <<>>

\* (batch[0] or {}).get("id")
FirstId(b) == Get(b[1], "id")

\* Faulty variant of Stalled: the test is applied in PAGE mode too.
Stalled_InEveryMode(b) ==
    /\ last_first_id # None
    /\ FirstId(b) = last_first_id

\* The stall test of OFFSET mode.
Stalled(b) ==
    /\ ~use_page_mode
    /\ last_first_id # None
    /\ FirstId(b) = last_first_id

\* Faulty variant of StallPage: one page too low.
StallPage_OneLess(off, lim) == (off \div lim) + 1

\* The page the cursor continues with after a stall.
StallPage(off, lim) == (off \div lim) + 2

\* Faulty variant of FinalBatch: only an empty batch counts as final.
FinalBatch_OnlyEmpty(b, lim) == Len(b) = 0

\* The test that ends the sequence after a yielded batch.
FinalBatch(b, lim) == Len(b) < lim

\* ------------------------------------------- _safe_str, _join_tags, _join_carts
\* The full-width colon U+FF1A, one character.
FullWidthColon == "U+FF1A"

RECURSIVE Flatten(_)
Flatten(ss) == IF ss = <<>> THEN <<>> ELSE Head(ss) \o Flatten(Tail(ss))

\* The keys a mapping is printed in: those of ORDER that are present.
RECURSIVE PresentKeys(_, _)
PresentKeys(m, order) ==
    IF order = <<>> THEN <<>>
    ELSE (IF Head(order) \in DOMAIN m THEN << Head(order) >> ELSE <<>>)
            \o PresentKeys(m, Tail(order))

PRINT_ORDER == << "id", "name", "label", "tag", "value", "title", "vendor",
                  "channel", "platform", "site", "store", "account" >>

\* str(x) and repr(x).  A key is printed as one character; the values of a
\* printed mapping are texts, None or booleans.
ScalarRepr(v) ==
    CASE v.t = "none" -> << "N", "o", "n", "e" >>
      [] v.t = "bool" -> IF v.b THEN << "T", "r", "u", "e" >>
                         ELSE << "F", "a", "l", "s", "e" >>
      [] v.t = "str" -> << "'" >> \o v.s \o << "'" >>
DictRepr(m) ==
    LET ks == PresentKeys(m, PRINT_ORDER)
        item(i) == (IF i = 1 THEN <<>> ELSE << ",", " " >>)
                      \o << "'", ks[i], "'", ":", " " >> \o ScalarRepr(m[ks[i]])
    IN << "{" >> \o Flatten([i \in 1 .. Len(ks) |-> item(i)]) \o << "}" >>
StrOf(v) ==
    CASE v.t = "str" -> v.s
      [] v.t = "dict" -> DictRepr(v.m)
      [] OTHER -> ScalarRepr(v)

\* s.replace(old, new) for a one-character old.
Replace(s, old, new) == [i \in 1 .. Len(s) |-> IF s[i] = old THEN new ELSE s[i]]

\* Faulty variant of _safe_str: the pipe is left in place.
_safe_str_KeepsPipe(x) ==
    IF x.t = "none" THEN <<>> ELSE Replace(StrOf(x), ":", FullWidthColon)

_safe_str(x) ==
    LET s == IF x.t = "none" THEN <<>> ELSE StrOf(x)
    IN Replace(Replace(s, "|", "/"), ":", FullWidthColon)

\* sep.join(parts) for a one-character sep.
RECURSIVE Join(_, _)
Join(parts, sep) ==
    IF parts = <<>> THEN <<>>
    ELSE IF Len(parts) = 1 THEN parts[1]
    ELSE parts[1] \o << sep >> \o Join(Tail(parts), sep)

\* The value of  d.get(k1) or d.get(k2) or ... or d.get(kn): the first
\* truthy operand, else the last operand.
RECURSIVE FirstTruthy(_, _)
FirstTruthy(m, keys) ==
    IF Len(keys) = 1 \/ Truthy(GetV(m, Head(keys))) THEN GetV(m, Head(keys))
    ELSE FirstTruthy(m, Tail(keys))

TAG_KEYS == << "name", "label", "tag", "value", "title" >>

\* The entry of out for element t of a list of tags.
TagEntry(t) ==
    IF t.t = "str" THEN _safe_str(t)
    ELSE IF t.t = "dict"
    THEN LET v == FirstTruthy(t.m, TAG_KEYS)
         IN _safe_str(IF v.t = "str" THEN v ELSE t)
    ELSE _safe_str(t)

_join_tags(tags_obj) ==
    LET out ==
          IF tags_obj.t = "list"
          THEN [i \in 1 .. Len(tags_obj.items) |-> TagEntry(tags_obj.items[i])]
          ELSE IF tags_obj.t = "dict"
          THEN LET v == FirstTruthy(tags_obj.m, TAG_KEYS)
               IN IF Truthy(v) THEN << _safe_str(v) >> ELSE <<>>
          ELSE IF tags_obj.t = "str" THEN << _safe_str(tags_obj) >>
          ELSE <<>>
    IN Join(out, "|")

\* s.strip(ch)
RECURSIVE LStrip(_, _)
LStrip(s, ch) == IF s # <<>> /\ Head(s) = ch THEN LStrip(Tail(s), ch) ELSE s
RECURSIVE RStrip(_, _)
RStrip(s, ch) ==
    IF s # <<>> /\ s[Len(s)] = ch THEN RStrip(SubSeq(s, 1, Len(s) - 1), ch) ELSE s
Strip(s, ch) == RStrip(LStrip(s, ch), ch)

VENDOR_KEYS == << "vendor", "channel", "platform", "site" >>
NAME_KEYS == << "name", "store", "account" >>

\* x or ""
OrEmpty(x) == IF Truthy(x) THEN x ELSE PyStr(<<>>)

\* f"{_safe_str(vendor)}:{_safe_str(name)}".strip(":")
CartText(vendor, name) == Strip(_safe_str(vendor) \o << ":" >> \o _safe_str(name), ":")

\* The entry of out for element c of a list of carts.
CartEntry(c) ==
    IF c.t = "dict"
    THEN CartText(OrEmpty(FirstTruthy(c.m, VENDOR_KEYS)),
                  OrEmpty(FirstTruthy(c.m, NAME_KEYS)))
    ELSE _safe_str(c)

\* The branch of _join_carts for a single mapping.  The fallbacks after
\* carts_obj.get("vendor") and carts_obj.get("name") read the loop variable
\* c of the list branch, which is unbound in this branch: evaluating one of
\* them raises UnboundLocalError.
SingleCartRaises(m) == ~Truthy(GetV(m, "vendor")) \/ ~Truthy(GetV(m, "name"))

\* _join_carts(carts_obj): [raised |-> TRUE] when the call raises, else the
\* text returned.
_join_carts(carts_obj) ==
    IF carts_obj.t = "list"
    THEN [raised |-> FALSE,
          text |-> Join([i \in 1 .. Len(carts_obj.items) |->
                           CartEntry(carts_obj.items[i])], "|")]
    ELSE IF carts_obj.t = "dict"
    THEN IF SingleCartRaises(carts_obj.m) THEN [raised |-> TRUE]
         ELSE [raised |-> FALSE,
               text |-> CartText(GetV(carts_obj.m, "vendor"), GetV(carts_obj.m, "name"))]
    ELSE IF carts_obj.t = "str"
    THEN [raised |-> FALSE, text |-> _safe_str(carts_obj)]
    ELSE [raised |-> FALSE, text |-> <<>>]

\* p.get("carts") or []
CartsArg(p) == IF Truthy(GetV(p, "carts")) THEN p.carts ELSE PyList(<<>>)

\* ------------------------------------------------------ flatten / dedup
\* str(x) for a stamp: None prints as the text None, a string as itself.
Str(x) == IF x = None THEN "None" ELSE x

_is_archived_like(p) ==
    \/ Get(p, "archived") = "true"
    \/ Get(p, "is_archived") = "true"
    \/ Get(p, "deleted") = "true"
    \/ Get(p, "is_deleted") = "true"

\* TRUE when base_product_cols(p) raises (in _join_carts).
BaseProductColsRaises(p) ==
    /\ ~(FILTER_ARCHIVED /\ _is_archived_like(p))
    /\ _join_carts(CartsArg(p)).raised

\* The product row of raw product p, as a sequence of zero or one rows (None
\* when the archived filter drops p).  The scalar columns not listed are
\* copied from p exactly as SKU and UPDATED are; TOTAL_ON_HAND stands for
\* the seven product-level quantities and POH for the ten warehouse-level
\* quantities.
base_product_cols(p) ==
    IF FILTER_ARCHIVED /\ _is_archived_like(p) THEN <<>>
    ELSE << [PRODUCT_ID |-> Get(p, "id"),
             SKU |-> Get(p, "sku"),
             UPDATED |-> Get(p, "updated"),
             TOTAL_ON_HAND |-> GetV(p, "total_on_hand"),
             TAGS |-> _join_tags(GetV(p, "tags")),
             CARTS |-> _join_carts(CartsArg(p)).text] >>

\* p.get("warehouses") or []
WarehousesOf(p) == IF "warehouses" \in DOMAIN p THEN p.warehouses ELSE <<>>

\* { **base, "WH_ID": ..., ... }
WarehouseRow(base, w) ==
    [PRODUCT_ID |-> base.PRODUCT_ID, SKU |-> base.SKU, UPDATED |-> base.UPDATED,
     TOTAL_ON_HAND |-> base.TOTAL_ON_HAND, TAGS |-> base.TAGS, CARTS |-> base.CARTS,
     WH_ID |-> Get(w, "id"), WH_UPDATED |-> Get(w, "updated"),
     POH |-> GetV(w, "physical_on_hand")]

RECURSIVE WarehouseRowsFrom(_, _, _)
WarehouseRowsFrom(base, ws, i) ==
    IF i > Len(ws) THEN <<>>
    ELSE IF ws[i].kind # "dict" THEN WarehouseRowsFrom(base, ws, i + 1)
    ELSE << WarehouseRow(base, ws[i]) >> \o WarehouseRowsFrom(base, ws, i + 1)

rows_for_warehouses(p) ==
    LET base == base_product_cols(p)
    IN IF base = <<>> THEN <<>>
       ELSE WarehouseRowsFrom(base[1], WarehousesOf(p), 1)

\* Faulty variant of WhKey: the key without the updated stamp.
WhKey_NoStamp(row) == << row.PRODUCT_ID, row.WH_ID >>

\* The dedup key of a warehouse row.
WhKey(row) == << row.PRODUCT_ID, row.WH_ID, Str(row.WH_UPDATED) >>

\* The inner loop of main over the warehouse rows of one product: acc is
\* [seen |-> seen_wh, rows |-> wh_rows].
RECURSIVE AdmitWarehouseRows(_, _, _)
AdmitWarehouseRows(rows, i, acc) ==
    IF i > Len(rows) THEN acc
    ELSE LET key == WhKey(rows[i])
         IN IF key \notin acc.seen
            THEN AdmitWarehouseRows(rows, i + 1,
                     [seen |-> acc.seen \cup { key },
                      rows |-> Append(acc.rows, rows[i])])
            ELSE AdmitWarehouseRows(rows, i + 1, acc)

\* Faulty variant of SkipsRecord: the missing-id test dropped.
SkipsRecord_Never(p) == FALSE

\* TRUE when main skips record p (no product id).
SkipsRecord(p) == Get(p, "id") = None

\* Faulty variant of AdmitsProduct: the seen_pid test dropped.
AdmitsProduct_Always(p, seen) == TRUE

\* TRUE when main admits the product row of record p.
AdmitsProduct(p, seen) == Get(p, "id") \notin seen

\* ------------------------------------------------------------- cleaning
\* The columns modelled, in the order of the target lists.  SKU stands for
\* the text columns, TOTAL_ON_HAND for the seven product-level quantities,
\* POH for the ten warehouse-level quantities.
PRODUCT_TARGET_COLS == << "PRODUCT_ID", "SKU", "UPDATED", "TOTAL_ON_HAND", "TAGS", "CARTS" >>
WAREHOUSE_TARGET_COLS ==
    << "PRODUCT_ID", "SKU", "UPDATED", "TOTAL_ON_HAND", "TAGS", "CARTS",
       "WH_ID", "WH_UPDATED", "POH" >>
PRODUCT_QTY_COLS == { "TOTAL_ON_HAND" }
WAREHOUSE_QTY_COLS == { "POH" }

\* The keys of the rows the flattener builds, in the order it inserts them.
PRODUCT_ROW_KEYS == << "PRODUCT_ID", "SKU", "UPDATED", "TOTAL_ON_HAND", "TAGS", "CARTS" >>
WAREHOUSE_ROW_KEYS == PRODUCT_ROW_KEYS \o << "WH_ID", "WH_UPDATED", "POH" >>

\* pd.DataFrame(rows): the columns are the keys of the rows.
DataFrame(rows, keys) == [columns |-> IF rows = <<>> THEN <<>> ELSE keys, rows |-> rows]

\* Cells.  A quantity cell is a tagged value; NA is the missing value of a
\* numeric column, Int64(n) a cell of the nullable integer type.  The cells
\* of the other columns are scalars, None when missing.
NA == [t |-> "NA"]
Int64(n) == [t |-> "Int64", v |-> n]

DIGITS == << "0", "1", "2", "3", "4", "5", "6", "7", "8", "9" >>
IsDigit(c) == \E i \in 1 .. Len(DIGITS) : DIGITS[i] = c
DigitValue(c) == (CHOOSE i \in 1 .. Len(DIGITS) : DIGITS[i] = c) - 1
IsDigits(s) == s # <<>> /\ \A i \in 1 .. Len(s) : IsDigit(s[i])
RECURSIVE DigitsValue(_)
DigitsValue(s) ==
    IF s = <<>> THEN 0
    ELSE 10 * DigitsValue(SubSeq(s, 1, Len(s) - 1)) + DigitValue(s[Len(s)])

\* The number a text parses as, in tenths: digits, with at most one digit
\* after a decimal point; NA for any other text.
ParseNumber(s) ==
    IF IsDigits(s) THEN PyNum(10 * DigitsValue(s))
    ELSE IF /\ Len(s) >= 3
            /\ s[Len(s) - 1] = "."
            /\ IsDigits(SubSeq(s, 1, Len(s) - 2))
            /\ IsDigit(s[Len(s)])
    THEN PyNum(10 * DigitsValue(SubSeq(s, 1, Len(s) - 2)) + DigitValue(s[Len(s)]))
    ELSE NA

\* pd.to_numeric(errors="coerce") on one cell.
to_numeric(x) ==
    CASE x.t = "num" -> x
      [] x.t = "str" -> ParseNumber(x.s)
      [] OTHER -> NA

\* .fillna(0)
fillna0(x) == IF x = NA THEN PyNum(0) ELSE x

\* .round(0) of a number given in tenths: half to even.
RoundHalfEven(tenths) ==
    LET q == tenths \div 10
        rem == tenths % 10
    IN IF rem < 5 THEN q
       ELSE IF rem > 5 THEN q + 1
       ELSE IF q % 2 = 0 THEN q ELSE q + 1

\* pd.to_numeric(col, errors="coerce").fillna(0).round(0).astype("Int64")
CleanQuantity(x) == Int64(RoundHalfEven(fillna0(to_numeric(x)).tenths))

\* The same conversions on an id column.  Ids are integers, which
\* to_numeric keeps; a missing id is NaN, filled with 0 in the warehouse
\* frame.
IdToNumeric(x) == IF x = None THEN None ELSE x
IdToInt64(x) == IF IdToNumeric(x) = None THEN "0" ELSE IdToNumeric(x)

\* pd.to_datetime(errors="coerce") on one cell: NaT for a missing stamp and
\* for a text that is not a stamp.
STAMPS == { "t1", "t2" }
to_datetime(x) == IF x \in STAMPS THEN x ELSE None

Range(s) == { s[i] : i \in 1 .. Len(s) }

\* The conversions the cleaning functions apply to the cells of a column.
Convert(conversion, x) ==
    CASE conversion = "datetime" -> to_datetime(x)
      [] conversion = "quantity" -> CleanQuantity(x)
      [] conversion = "numeric id" -> IdToNumeric(x)
      [] conversion = "Int64 id" -> IdToInt64(x)

\* df[c] = conversion of df[c], for every column c of cols that df has.
ApplyCols(df, cols, conversion) ==
    [df EXCEPT !.rows =
        [i \in 1 .. Len(df.rows) |->
            [c \in DOMAIN df.rows[i] |->
                IF c \in cols THEN Convert(conversion, df.rows[i][c])
                ELSE df.rows[i][c]]]]

\* The cell reindex puts in a column df does not have.
MissingCell(c) ==
    IF c \in PRODUCT_QTY_COLS \cup WAREHOUSE_QTY_COLS THEN NA ELSE None

\* df.reindex(columns=cols)
Reindex(df, cols) ==
    [columns |-> cols,
     rows |-> [i \in 1 .. Len(df.rows) |->
                 [c \in Range(cols) |->
                     IF c \in Range(df.columns) THEN df.rows[i][c]
                     ELSE MissingCell(c)]]]

clean_products_df(df) ==
    IF df.rows = <<>> THEN Reindex(df, PRODUCT_TARGET_COLS)
    ELSE LET d1 == ApplyCols(df, { "UPDATED" }, "datetime")
             d2 == ApplyCols(d1, PRODUCT_QTY_COLS, "quantity")
             d3 == ApplyCols(d2, { "PRODUCT_ID" }, "numeric id")
         IN Reindex(d3, PRODUCT_TARGET_COLS)

clean_wh_df(df) ==
    IF df.rows = <<>> THEN Reindex(df, WAREHOUSE_TARGET_COLS)
    ELSE LET d1 == ApplyCols(df, { "UPDATED", "WH_UPDATED" }, "datetime")
             d2 == ApplyCols(d1, WAREHOUSE_QTY_COLS, "quantity")
             d3 == ApplyCols(d2, { "PRODUCT_ID", "WH_ID" }, "Int64 id")
         IN Reindex(d3, WAREHOUSE_TARGET_COLS)

\* The rows handed to _write_df for the product rows and the warehouse rows
\* collected for a batch.
CleanedProductRows(rows) == clean_products_df(DataFrame(rows, PRODUCT_ROW_KEYS)).rows
CleanedWarehouseRows(rows) == clean_wh_df(DataFrame(rows, WAREHOUSE_ROW_KEYS)).rows

\* ------------------------------------------------------------ initial state
StaleRow == [PRODUCT_ID |-> "stale", SKU |-> "stale", UPDATED |-> None]

\* Sources that exercise the cursor: well-behaved sources of every shape, and
\* sources of distinct records whose offset pagination stalls beyond stallK.
CursorSources ==
    \/ /\ records \in SeqsUpTo(PlainProducts, MaxRecords)
       /\ shape \in Shapes
       /\ stalls = FALSE
       /\ stallK = 0
    \/ /\ records \in { OrderedRecords(n) : n \in 0 .. MaxOrdered }
       /\ shape \in { "list", "product" }
       /\ \/ stalls = FALSE /\ stallK = 0
          \/ stalls = TRUE /\ stallK \in 0 .. Len(records)

\* Sources that exercise flattening and deduplication.
DedupSources ==
    /\ records \in SeqsUpTo(RichProducts, MaxRecords)
    /\ shape = "list"
    /\ stalls = FALSE
    /\ stallK = 0

\* The state main starts in, at position pc0.
MainInit(pc0) ==
    /\ pc = pc0
    /\ conn = "none"
    /\ error = "none"
    /\ seen_pid = {} /\ seen_wh = {}
    /\ prod_rows = <<>> /\ wh_rows = <<>>
    /\ prod_snap = 0 /\ wh_snap = 0
    /\ batch_idx = 0 /\ rec_idx = 0
    /\ params = [limit |-> limit_each, mode |-> "offset", value |-> 0]
    /\ attempt = 0
    /\ r = <<>>
    /\ sleeps = <<>>
    /\ offset = 0
    /\ last_first_id = None
    /\ use_page_mode = FALSE
    /\ page = 1
    /\ data = NotJson
    /\ batch = <<>>
    /\ prod_table = << StaleRow >> /\ wh_table = << StaleRow >>
    /\ truncs = 0
    /\ closes = 0
    /\ reqlog = <<>> /\ yielded = <<>> /\ switches = 0
    /\ handed_prod = <<>> /\ handed_wh = <<>>

Pending == [state |-> "pending"]

Init ==
    /\ \/ CursorSources /\ limit_each \in 1 .. MaxLimit
       \/ DedupSources /\ limit_each = MaxLimit
    /\ MainInit("start")
    /\ call = "none" /\ arg = PyNone /\ result = Pending

\* ------------------------------------------------------------------ main
\* conn = connect_snowflake(), before the try block.
Connect ==
    /\ pc = "start"
    /\ \E ok \in BOOLEAN :
          IF ok THEN conn' = "open" /\ pc' = "truncate" /\ error' = error
          ELSE conn' = conn /\ pc' = "exit" /\ error' = "connect"
    /\ UNCHANGED << source_vars, call_vars, main_vars, fetch_vars, cursor_vars, dest_vars,
                    closes, hist_vars >>

\* Faulty variant of TruncateRaises: a failed statement goes unnoticed.
TruncateRaises_Swallowed(done) == FALSE

\* TRUE when truncate_snapshots raises: a statement failed after done of the
\* two TRUNCATE statements had been executed.
TruncateRaises(done) == done < 2

\* truncate_snapshots(conn): the two TRUNCATE statements in order; any
\* statement may fail.  Then the set-up of the loop of main.
TruncateSnapshots ==
    /\ pc = "truncate"
    /\ \E done \in 0 .. 2 :
          /\ truncs' = truncs + done
          /\ prod_table' = IF done >= 1 THEN <<>> ELSE prod_table
          /\ wh_table' = IF done >= 2 THEN <<>> ELSE wh_table
          /\ IF TruncateRaises(done) THEN pc' = "finally" /\ error' = "truncate"
             ELSE pc' = "loop" /\ error' = error
    /\ seen_pid' = {} /\ seen_wh' = {}
    /\ prod_snap' = 0 /\ wh_snap' = 0 /\ batch_idx' = 0
    /\ UNCHANGED << source_vars, call_vars, conn, prod_rows, wh_rows, rec_idx, fetch_vars,
                    cursor_vars, handed_prod, handed_wh, closes, hist_vars >>

\* ------------------------------------------------ iter_products_batches
\* Top of the while loop: build params and enter _request_with_retry.
StartFetch ==
    /\ pc = "loop"
    /\ Len(reqlog) < MaxFetches
    /\ params' = [limit |-> limit_each,
                  mode |-> IF use_page_mode THEN "page" ELSE "offset",
                  value |-> IF use_page_mode THEN page ELSE offset]
    /\ attempt' = 0
    /\ r' = <<>>
    /\ sleeps' = <<>>
    /\ reqlog' = Append(reqlog, params')
    /\ pc' = "request"
    /\ UNCHANGED << source_vars, call_vars, conn, error, main_vars, cursor_vars, dest_vars,
                    closes, yielded, switches >>

\* One iteration of the while loop of _request_with_retry: the GET (and the
\* second GET after an http:// redirect), the status checks, and either the
\* return of r or the except clause.
RequestAttempt ==
    /\ pc = "request"
    /\ \E first \in Outcomes :
       \E second \in IF first = 302 THEN Outcomes ELSE { first } :
          LET o == FinalOutcome(first, second)
          IN /\ r' = << o >>
             /\ IF RaisesRequestException(o)
                THEN /\ attempt' = attempt + 1
                     /\ data' = data
                     /\ IF RetriesExhausted(attempt')
                        THEN pc' = "finally" /\ error' = "fetch" /\ sleeps' = sleeps
                        ELSE /\ sleeps' = Append(sleeps, Backoff(attempt'))
                             /\ pc' = "request"
                             /\ error' = error
                ELSE \* return r: the locals attempt and the sleeps end here
                     /\ attempt' = 0
                     /\ sleeps' = <<>>
                     /\ data' = IF o = 200 THEN Respond(params) ELSE NotJson
                     /\ pc' = "decode"
                     /\ error' = error
    /\ UNCHANGED << source_vars, call_vars, conn, main_vars, params, offset, last_first_id,
                    use_page_mode, page, batch, dest_vars, closes, hist_vars >>

\* From r.json() to the yield: decode, extract the batch, end on an empty
\* batch, switch to PAGE mode on a stall, else yield the batch.
CursorStep ==
    /\ pc = "decode"
    /\ IF data = NotJson
       THEN /\ pc' = "finally" /\ error' = "decode"
            /\ UNCHANGED << batch, use_page_mode, page, yielded, switches >>
       ELSE LET b == ExtractBatch(data)
            IN /\ batch' = b
               /\ error' = error
               /\ IF b = <<>>
                  THEN /\ pc' = "finally"
                       /\ UNCHANGED << use_page_mode, page, yielded, switches >>
                  ELSE IF Stalled(b)
                  THEN /\ use_page_mode' = TRUE
                       /\ page' = StallPage(offset, limit_each)
                       /\ switches' = switches + 1
                       /\ pc' = "loop"
                       /\ yielded' = yielded
                  ELSE /\ yielded' = Append(yielded, b)
                       /\ pc' = "yielded"
                       /\ UNCHANGED << use_page_mode, page, switches >>
    /\ UNCHANGED << source_vars, call_vars, conn, main_vars, fetch_vars, offset,
                    last_first_id, data, dest_vars, closes, reqlog >>

\* Faulty variant of AdvanceOffset: the offset advanced by the limit.
AdvanceOffset_ByLimit(off, b, lim) == off + lim

\* offset += len(batch)
AdvanceOffset(off, b, lim) == off + Len(b)

\* The generator resumed after the yield: stop after an under-full batch,
\* else advance page or offset.
ResumeCursor ==
    /\ pc = "resume"
    /\ IF FinalBatch(batch, limit_each)
       THEN /\ pc' = "finally"
            /\ UNCHANGED << page, offset, last_first_id >>
       ELSE /\ pc' = "loop"
            /\ IF use_page_mode
               THEN page' = page + 1 /\ UNCHANGED << offset, last_first_id >>
               ELSE /\ offset' = AdvanceOffset(offset, batch, limit_each)
                    /\ last_first_id' = FirstId(batch)
                    /\ page' = page
    /\ UNCHANGED << source_vars, call_vars, conn, error, main_vars, fetch_vars,
                    use_page_mode, data, batch, dest_vars, closes, hist_vars >>

\* ------------------------------------------------- main, one batch
\* The head of the for loop body: batch_idx += 1; prod_rows=[]; wh_rows=[].
BeginBatch ==
    /\ pc = "yielded"
    /\ batch_idx' = batch_idx + 1
    /\ prod_rows' = <<>> /\ wh_rows' = <<>>
    /\ rec_idx' = 1
    /\ pc' = "process"
    /\ UNCHANGED << source_vars, call_vars, conn, error, seen_pid, seen_wh, prod_snap,
                    wh_snap, fetch_vars, cursor_vars, dest_vars, closes,
                    hist_vars >>

\* Faulty variant of AfterRecord: the writes of the batch are left out and
\* the cursor is resumed at once.
AfterRecord_NoWrites(i, b) == IF i > Len(b) THEN "resume" ELSE "process"

\* Where main goes on after a record: the next record of the batch, or the
\* writes of the batch after the last one.
AfterRecord(i, b) == IF i > Len(b) THEN "write_prod" ELSE "process"

\* The body of "for p in batch" for the record at rec_idx.
ProcessRecord ==
    /\ pc = "process"
    /\ rec_idx <= Len(batch)
    /\ LET p == batch[rec_idx]
           row == base_product_cols(p)
           admit == AdmitsProduct(p, seen_pid) /\ row # <<>>
           acc == AdmitWarehouseRows(rows_for_warehouses(p), 1,
                                     [seen |-> seen_wh, rows |-> wh_rows])
       IN IF SkipsRecord(p)
          THEN /\ UNCHANGED << seen_pid, seen_wh, prod_rows, wh_rows, error >>
               /\ rec_idx' = rec_idx + 1
               /\ pc' = AfterRecord(rec_idx', batch)
          ELSE IF BaseProductColsRaises(p)
          THEN \* raised by the first call of base_product_cols(p), directly
               \* or in rows_for_warehouses, before anything is recorded
               /\ UNCHANGED << seen_pid, seen_wh, prod_rows, wh_rows, rec_idx >>
               /\ pc' = "finally" /\ error' = "process"
          ELSE /\ seen_pid' = IF admit THEN seen_pid \cup { Get(p, "id") } ELSE seen_pid
               /\ prod_rows' = IF admit THEN Append(prod_rows, row[1]) ELSE prod_rows
               /\ seen_wh' = acc.seen
               /\ wh_rows' = acc.rows
               /\ error' = error
               /\ rec_idx' = rec_idx + 1
               /\ pc' = AfterRecord(rec_idx', batch)
    /\ UNCHANGED << source_vars, call_vars, conn, prod_snap, wh_snap, batch_idx,
                    fetch_vars, cursor_vars, dest_vars, closes, hist_vars >>

\* if prod_rows: df = clean_products_df(pd.DataFrame(prod_rows));
\* prod_snap += _write_df(conn, df, TABLE_PRODUCTS_SNAP)
WriteProducts ==
    /\ pc = "write_prod"
    /\ IF prod_rows = <<>>
       THEN /\ pc' = "write_wh"
            /\ UNCHANGED << error, prod_snap, prod_table, handed_prod >>
       ELSE /\ handed_prod' = handed_prod \o CleanedProductRows(prod_rows)
            /\ \E ok \in BOOLEAN :
                  IF ok
                  THEN /\ prod_table' = prod_table \o CleanedProductRows(prod_rows)
                       /\ prod_snap' = prod_snap + Len(prod_rows)
                       /\ pc' = "write_wh" /\ error' = error
                  ELSE /\ pc' = "finally" /\ error' = "write"
                       /\ UNCHANGED << prod_table, prod_snap >>
    /\ UNCHANGED << source_vars, call_vars, conn, seen_pid, seen_wh, prod_rows, wh_rows,
                    wh_snap, batch_idx, rec_idx, fetch_vars, cursor_vars,
                    wh_table, truncs, handed_wh, closes, hist_vars >>

\* if wh_rows: df = clean_wh_df(pd.DataFrame(wh_rows));
\* wh_snap += _write_df(conn, df, TABLE_WAREHOUSES_SNAP)
WriteWarehouses ==
    /\ pc = "write_wh"
    /\ IF wh_rows = <<>>
       THEN /\ pc' = "resume"
            /\ UNCHANGED << error, wh_snap, wh_table, handed_wh >>
       ELSE /\ handed_wh' = handed_wh \o CleanedWarehouseRows(wh_rows)
            /\ \E ok \in BOOLEAN :
                  IF ok
                  THEN /\ wh_table' = wh_table \o CleanedWarehouseRows(wh_rows)
                       /\ wh_snap' = wh_snap + Len(wh_rows)
                       /\ pc' = "resume" /\ error' = error
                  ELSE /\ pc' = "finally" /\ error' = "write"
                       /\ UNCHANGED << wh_table, wh_snap >>
    /\ UNCHANGED << source_vars, call_vars, conn, seen_pid, seen_wh, prod_rows, wh_rows,
                    prod_snap, batch_idx, rec_idx, fetch_vars, cursor_vars,
                    prod_table, truncs, handed_prod, closes, hist_vars >>

\* Faulty variant of Finally: the connection is closed only when the body
\* of main completed (a close at the end of the try block, no finally).
Finally_OnlyOnSuccess ==
    /\ pc = "finally"
    /\ conn' = IF error = "none" THEN "closed" ELSE conn
    /\ closes' = IF error = "none" THEN closes + 1 ELSE closes
    /\ pc' = "exit"
    /\ UNCHANGED << source_vars, call_vars, error, main_vars, fetch_vars, cursor_vars,
                    dest_vars, hist_vars >>

\* Faulty variant of Finally: a failed run is rolled back (the snapshot
\* tables are emptied) before the connection is closed.
Finally_RollsBack ==
    /\ pc = "finally"
    /\ conn' = "closed"
    /\ closes' = closes + 1
    /\ pc' = "exit"
    /\ prod_table' = IF error = "none" THEN prod_table ELSE <<>>
    /\ wh_table' = IF error = "none" THEN wh_table ELSE <<>>
    /\ UNCHANGED << source_vars, call_vars, error, main_vars, fetch_vars, cursor_vars,
                    truncs, handed_prod, handed_wh, hist_vars >>

\* finally: conn.close()
Finally ==
    /\ pc = "finally"
    /\ conn' = "closed"
    /\ closes' = closes + 1
    /\ pc' = "exit"
    /\ UNCHANGED << source_vars, call_vars, error, main_vars, fetch_vars, cursor_vars,
                    dest_vars, hist_vars >>

Next ==
    \/ Connect
    \/ TruncateSnapshots
    \/ StartFetch
    \/ RequestAttempt
    \/ CursorStep
    \/ BeginBatch
    \/ ProcessRecord
    \/ WriteProducts
    \/ WriteWarehouses
    \/ ResumeCursor
    \/ Finally

Spec == Init /\ [][Next]_vars

\* ======================================================================
\* The helper functions on their own: one call of _join_tags, _join_carts,
\* clean_products_df or clean_wh_df on an argument drawn from the sets
\* below.
\* ======================================================================
\* Elements of a list of tags: texts with and without the separator and the
\* colon, the empty text, None, a value of another type, mappings with a
\* text under a probed key, with no probed key, with a non-text value.
TagElements ==
    { PyStr(<< "a", "|", "b" >>), PyStr(<< "c" >>), PyStr(<<>>),
      PyStr(<< "x", ":", "y" >>), PyNone, PyBool(TRUE),
      PyDict([name |-> PyStr(<< "n", "|", "m" >>)]),
      PyDict([label |-> PyStr(<< "l" >>)]),
      PyDict([id |-> PyStr(<< "i", "|", "j" >>)]),
      PyDict([name |-> PyBool(TRUE), id |-> PyStr(<< "k", ":" >>)]) }

TagInputs ==
    { PyList(items) : items \in SeqsUpTo(TagElements, MaxElems) }
        \cup { PyNone, PyStr(<< "a", "|", "b" >>),
               PyDict([label |-> PyStr(<< "l", "|" >>)]),
               PyDict([title |-> PyStr(<<>>)]) }

\* Elements of a list of carts.
CartElements ==
    { PyDict([vendor |-> PyStr(<< "v", "|", "w" >>), name |-> PyStr(<< "n" >>)]),
      PyDict([channel |-> PyStr(<< "c" >>), store |-> PyStr(<< "s", ":", "t" >>)]),
      PyDict([vendor |-> PyStr(<< "v" >>)]),
      PyDict([account |-> PyStr(<< "n" >>)]),
      PyDict([id |-> PyStr(<< "i" >>)]),
      PyStr(<< "a", "|", "b" >>),
      PyNone }

\* Carts given as a single mapping: every combination of present and absent
\* probed keys, each key holding its own name as a one-character text.
CART_KEYS == { "vendor", "channel", "platform", "site", "name", "store", "account" }
SingleCarts == { PyDict([k \in present |-> PyStr(<< k >>)]) : present \in SUBSET CART_KEYS }

CartInputs ==
    { PyList(items) : items \in SeqsUpTo(CartElements, MaxElems) }
        \cup SingleCarts
        \cup { PyNone, PyStr(<< "a", ":", "b" >>) }

\* Quantity cells as the flattener leaves them: missing, a text that is not
\* a number, texts that are numbers, a number with a fraction.
QuantityCells ==
    { PyNone, PyStr(<< "a", "b", "c" >>), PyStr(<< "1", "2" >>),
      PyStr(<< "1", ".", "5" >>), PyNum(25) }

ProductRows ==
    { [PRODUCT_ID |-> "p1", SKU |-> "a", UPDATED |-> u, TOTAL_ON_HAND |-> q,
       TAGS |-> <<>>, CARTS |-> <<>>] :
        u \in { "t1", "junk" }, q \in QuantityCells }

WarehouseRows ==
    { [PRODUCT_ID |-> "p1", SKU |-> "a", UPDATED |-> "t1", TOTAL_ON_HAND |-> q,
       TAGS |-> <<>>, CARTS |-> <<>>, WH_ID |-> w, WH_UPDATED |-> "t1", POH |-> poh] :
        q \in { PyStr(<< "a", "b", "c" >>), PyStr(<< "1", "2" >>) },
        w \in { "w5", None }, poh \in QuantityCells }

Reverse(seq) == [i \in 1 .. Len(seq) |-> seq[Len(seq) + 1 - i]]

\* Frames built from flattener rows, with the columns in the order of the
\* keys or in the opposite order; the frame of no rows has no columns.
FramesOf(rowset, keys) ==
    { DataFrame(rows, order) :
        rows \in SeqsUpTo(rowset, MaxRows), order \in { keys, Reverse(keys) } }

InitCall ==
    /\ records = <<>> /\ shape = "list" /\ stalls = FALSE /\ stallK = 0
    /\ limit_each = 1
    /\ MainInit("idle")
    /\ result = Pending
    /\ \/ call = "_join_tags" /\ arg \in TagInputs
       \/ call = "_join_carts" /\ arg \in CartInputs
       \/ call = "clean_products_df" /\ arg \in FramesOf(ProductRows, PRODUCT_ROW_KEYS)
       \/ call = "clean_wh_df" /\ arg \in FramesOf(WarehouseRows, WAREHOUSE_ROW_KEYS)

Returned(v) == [state |-> "returned", value |-> v]
Raised == [state |-> "raised"]

CallJoinTags ==
    /\ call = "_join_tags" /\ result = Pending
    /\ result' = Returned(_join_tags(arg))
    /\ UNCHANGED << source_vars, pc, conn, error, main_vars, fetch_vars,
                    cursor_vars, dest_vars, closes, hist_vars, call, arg >>

CallJoinCarts ==
    /\ call = "_join_carts" /\ result = Pending
    /\ result' = IF _join_carts(arg).raised THEN Raised
                  ELSE Returned(_join_carts(arg).text)
    /\ UNCHANGED << source_vars, pc, conn, error, main_vars, fetch_vars,
                    cursor_vars, dest_vars, closes, hist_vars, call, arg >>

CallCleanProducts ==
    /\ call = "clean_products_df" /\ result = Pending
    /\ result' = Returned(clean_products_df(arg))
    /\ UNCHANGED << source_vars, pc, conn, error, main_vars, fetch_vars,
                    cursor_vars, dest_vars, closes, hist_vars, call, arg >>

CallCleanWh ==
    /\ call = "clean_wh_df" /\ result = Pending
    /\ result' = Returned(clean_wh_df(arg))
    /\ UNCHANGED << source_vars, pc, conn, error, main_vars, fetch_vars,
                    cursor_vars, dest_vars, closes, hist_vars, call, arg >>

NextCall ==
    \/ CallJoinTags
    \/ CallJoinCarts
    \/ CallCleanProducts
    \/ CallCleanWh

SpecCall == InitCall /\ [][NextCall]_vars

\* ======================================================================
\* Properties
\* ======================================================================
RECURSIVE Concat(_)
Concat(ss) == IF ss = <<>> THEN <<>> ELSE Head(ss) \o Concat(Tail(ss))

\* The cursor sequence ended and main completed without a failure.
EndedNormally == pc = "exit" /\ error = "none"

LastYielded == yielded[Len(yielded)]

\* C1: stall fallback.  For a list-shaped source of pairwise distinct records
\* that is served correctly by page number and whose offset requests stop
\* advancing beyond stallK, a run that ends normally has switched from OFFSET
\* to PAGE mode at most once, and the concatenation of the yielded batches is
\* the source: every record exactly once, in source order.
C1_StallFallbackYieldsSource ==
    (stalls /\ shape = "list" /\ EndedNormally) =>
        /\ switches <= 1
        /\ Concat(yielded) = records

\* C2: when the second request, still in OFFSET mode, is followed by a switch
\* to PAGE mode (its batch repeated the first id of the first batch), only
\* the first batch has been yielded and the third request is for page 2 with
\* the same limit.
C2_StallAtSecondRequestFetchesPage2 ==
    (/\ Len(reqlog) = 3
     /\ reqlog[1] = [limit |-> limit_each, mode |-> "offset", value |-> 0]
     /\ reqlog[2].mode = "offset"
     /\ reqlog[3].mode = "page") =>
        /\ Len(yielded) >= 1
        /\ (pc = "request" => Len(yielded) = 1)
        /\ reqlog[3] = [limit |-> limit_each, mode |-> "page", value |-> 2]

\* C3: pagination termination, as the state the sequence ends in.  For a
\* well-behaved source (no stall) and every fetch succeeding, when the cursor
\* has ended: if the record count is a multiple of the limit the last batch
\* received was empty (and so was not yielded), and no more batches were
\* yielded than the source has pages; otherwise the last yielded batch is
\* shorter than the limit.
C3_EndsOnShortOrEmptyBatch ==
    (~stalls /\ shape # "overlong" /\ EndedNormally /\ truncs = 2) =>
        IF Len(records) % limit_each = 0
        THEN /\ batch = <<>>
             /\ Len(yielded) <= Len(records) \div limit_each
        ELSE /\ yielded # <<>>
             /\ Len(LastYielded) < limit_each

\* The batch a mapping payload m stands for.
C4_ListKeys(m) == { i \in 1 .. Len(KEYS) : KEYS[i] \in DOMAIN m /\ m[KEYS[i]].t = "list" }
C4_ExpectedBatch(m) ==
    IF C4_ListKeys(m) # {}
    THEN m[KEYS[CHOOSE i \in C4_ListKeys(m) : \A j \in C4_ListKeys(m) : i <= j]].items
    ELSE IF DOMAIN m # {} THEN << m >> ELSE <<>>

\* C4: batch extraction.  The batch taken from a mapping payload is the list
\* under the first of the keys product, products, results, data, items that
\* holds a list; the payload itself is the single record of the batch only
\* when no such key holds a list and the mapping is non-empty.  An empty
\* batch ends the sequence and is not yielded.
C4_MappingBatchIsFirstListKey ==
    (pc # "decode" /\ data.t = "dict") =>
        /\ batch = C4_ExpectedBatch(data.m)
        /\ C4_ExpectedBatch(data.m) = <<>> =>
              /\ pc \in { "finally", "exit" }
              /\ (yielded # <<>> => LastYielded # << data.m >>)

C5_NonRetryable(status) == status >= 400 /\ status < 500 /\ status # 429

\* C5: a response with a 4xx status other than 429 fails the fetch at once:
\* the retry loop is left with the failure, with no further request.
C5_NonRetryableFailsAtOnce ==
    (r # <<>> /\ C5_NonRetryable(r[1])) =>
        /\ pc \in { "finally", "exit" }
        /\ error = "fetch"

C6_Failure(status) == status = TransportFailure \/ status >= 400
C6_SleepsAreBackoff ==
    \A k \in 1 .. Len(sleeps) :
        sleeps[k].num * (BACKOFF_DEN ^ k) = (BACKOFF_NUM ^ k) * sleeps[k].den

\* C6: bounded retry.  While a fetch is being retried at most MAX_RETRIES
\* failures have occurred, each followed by exactly one sleep, the k-th of
\* BACKOFF_BASE^k seconds, and a retry only ever follows a failure; the
\* fetch fails, with the last failure, exactly when failure MAX_RETRIES + 1
\* occurs, after MAX_RETRIES sleeps; a response that is not a failure ends
\* the loop at once.
C6_BoundedRetry ==
    /\ C6_SleepsAreBackoff
    /\ pc = "request" =>
          /\ attempt <= MAX_RETRIES
          /\ Len(sleeps) = attempt
          /\ (r = <<>>) = (attempt = 0)
          /\ r # <<>> => C6_Failure(r[1])
    /\ (pc \in { "finally", "exit" } /\ error = "fetch") =>
          /\ attempt = MAX_RETRIES + 1
          /\ Len(sleeps) = MAX_RETRIES
          /\ r # <<>> /\ C6_Failure(r[1])
    /\ (r # <<>> /\ ~C6_Failure(r[1])) => pc # "request"
C6_Witness ==
    /\ pc = "finally" /\ error = "fetch"
    /\ r = << 429 >>
    /\ Len(sleeps) = MAX_RETRIES
    /\ sleeps[MAX_RETRIES].num > sleeps[MAX_RETRIES].den

ShortBatchYielded == yielded # <<>> /\ Len(LastYielded) < limit_each

\* C7: once a batch shorter than the limit has been yielded, no further
\* request is issued and nothing more is yielded, in either mode.
C7_NothingAfterShortBatch ==
    [][ShortBatchYielded => (reqlog' = reqlog /\ yielded' = yielded)]_vars
C7_Witness ==
    /\ use_page_mode
    /\ ShortBatchYielded
    /\ LastYielded[1] \in { records[i] : i \in 1 .. Len(records) }
    /\ EndedNormally

\* The records of the batches whose product rows have been handed over, and
\* the records the inner loop of main has gone through.
AllButLast(ss) == SubSeq(ss, 1, Len(ss) - 1)
HandedRecords ==
    IF pc \in { "yielded", "process", "write_prod" } \/ error = "process"
    THEN Concat(AllButLast(yielded)) ELSE Concat(yielded)
ProcessedRecords ==
    IF pc = "yielded" THEN Concat(AllButLast(yielded))
    ELSE IF pc = "process" \/ error = "process"
    THEN Concat(AllButLast(yielded)) \o SubSeq(batch, 1, rec_idx - 1)
    ELSE Concat(yielded)
HasId(p) == "id" \in DOMAIN p /\ p.id # None

\* Index in recs of the first record with product id id.
C8_FirstIndex(recs, id) ==
    CHOOSE i \in 1 .. Len(recs) :
        /\ HasId(recs[i]) /\ recs[i].id = id
        /\ \A j \in 1 .. i - 1 : ~(HasId(recs[j]) /\ recs[j].id = id)

\* C8: product dedup.  The product rows handed to the write capability hold
\* exactly one row per distinct non-null product id of the batches handled,
\* and that row is built from the first record with that id.
C8_OneProductRowPerId ==
    LET recs == HandedRecords
        ids == { recs[i].id : i \in { j \in 1 .. Len(recs) : HasId(recs[j]) } }
    IN /\ \A id \in ids :
            Cardinality({ k \in 1 .. Len(handed_prod) : handed_prod[k].PRODUCT_ID = id }) = 1
       /\ \A k \in 1 .. Len(handed_prod) :
            /\ handed_prod[k].PRODUCT_ID \in ids
            /\ handed_prod[k].SKU = Get(recs[C8_FirstIndex(recs, handed_prod[k].PRODUCT_ID)], "sku")
C8_Witness ==
    /\ EndedNormally
    /\ Len(yielded) = 2 /\ Len(yielded[1]) = 2
    /\ ~HasId(yielded[1][1])
    /\ Get(yielded[1][2], "id") = "p1" /\ Get(yielded[1][2], "sku") = "b"
    /\ Get(yielded[2][1], "id") = "p1" /\ Get(yielded[2][1], "sku") = "a"
    /\ Len(handed_prod) = 1
    /\ handed_prod[1].PRODUCT_ID = "p1" /\ handed_prod[1].SKU = "b"

\* The triples of the warehouse entries of raw product p, and the warehouse
\* rows admitted so far (handed over, or collected for the current batch).
C9_Text(x) == IF x = None THEN "None" ELSE x
C9_Triple(row) == << row.PRODUCT_ID, row.WH_ID, C9_Text(row.WH_UPDATED) >>
C9_TriplesOf(p) ==
    IF ~HasId(p) \/ "warehouses" \notin DOMAIN p THEN {}
    ELSE { << p.id, Get(p.warehouses[i], "id"), C9_Text(Get(p.warehouses[i], "updated")) >> :
             i \in { j \in 1 .. Len(p.warehouses) : p.warehouses[j].kind = "dict" } }
AdmittedWh ==
    IF pc \in { "process", "write_prod", "write_wh" } \/ error = "process"
    THEN handed_wh \o wh_rows ELSE handed_wh

\* C9: warehouse dedup.  The admitted warehouse rows have pairwise distinct
\* triples (product id, warehouse id, text of the updated stamp), and the
\* triples admitted are exactly the triples of the warehouse entries of the
\* records gone through (those with a product id), whether or not the
\* product id was already seen.
C9_WarehouseRowsUniquePerTriple ==
    LET rows == AdmittedWh
        recs == ProcessedRecords
        triples == UNION { C9_TriplesOf(recs[i]) : i \in 1 .. Len(recs) }
    IN /\ seen_wh = triples
       /\ \A i, j \in 1 .. Len(handed_wh) :
            C9_Triple(handed_wh[i]) = C9_Triple(handed_wh[j]) => i = j
       /\ (error # "write") =>
            /\ \A i, j \in 1 .. Len(rows) :
                  C9_Triple(rows[i]) = C9_Triple(rows[j]) => i = j
            /\ { C9_Triple(rows[i]) : i \in 1 .. Len(rows) } = triples
C9_Witness ==
    /\ EndedNormally
    /\ Len(yielded) = 2 /\ Len(yielded[1]) = 2
    /\ ~HasId(yielded[1][1])
    /\ yielded[1][2] = Product("p1", "a", << WhDict("w5", "t1") >>)
    /\ yielded[2][1] = Product("p1", "b", << WhDict("w5", "t2"), WhJunk, WhDict("w5", "t1") >>)
    /\ Len(handed_prod) = 1
    /\ Len(handed_wh) = 2
    /\ C9_Triple(handed_wh[1]) = << "p1", "w5", "t1" >>
    /\ C9_Triple(handed_wh[2]) = << "p1", "w5", "t2" >>
    /\ handed_wh[2].SKU = "b"

\* C10: a record with no product id (absent or null) is skipped: the step
\* of main over it leaves seen_pid, seen_wh and the rows collected unchanged,
\* raises nothing, and goes on to the next record of the batch.
C10_NoIdRecordIsSkipped ==
    [][(pc = "process" /\ rec_idx <= Len(batch) /\ ~HasId(batch[rec_idx])) =>
          /\ seen_pid' = seen_pid /\ seen_wh' = seen_wh
          /\ prod_rows' = prod_rows /\ wh_rows' = wh_rows
          /\ error' = error
          /\ rec_idx' = rec_idx + 1
          /\ pc' = IF rec_idx < Len(batch) THEN "process" ELSE "write_prod"]_vars
C10_Witness ==
    /\ pc = "write_prod"
    /\ Len(batch) = 2
    /\ "id" \notin DOMAIN batch[1]
    /\ batch[2].id = "p1"
    /\ Len(prod_rows) = 1 /\ prod_rows[1].PRODUCT_ID = "p1"
    /\ Len(wh_rows) = 1 /\ wh_rows[1].PRODUCT_ID = "p1"
    /\ seen_pid = { "p1" }

NothingFetchedOrWritten ==
    reqlog = <<>> /\ handed_prod = <<>> /\ handed_wh = <<>>

\* C11: truncate first.  Each snapshot table is truncated at most once, and
\* only before any fetch and any write; a fetch or a write is issued only
\* after both tables were truncated; when truncation fails the run ends with
\* that failure and no fetch and no write is ever issued.
C11_TruncateFirst ==
    /\ [](/\ truncs <= 2
          /\ ~NothingFetchedOrWritten => (truncs = 2 /\ error # "truncate")
          /\ pc \in { "loop", "request", "decode", "yielded", "process",
                      "write_prod", "write_wh", "resume" } => truncs = 2
          /\ EndedNormally => truncs = 2
          /\ error = "truncate" =>
                (truncs < 2 /\ pc \in { "finally", "exit" } /\ NothingFetchedOrWritten))
    /\ [][/\ truncs' # truncs => NothingFetchedOrWritten
          /\ error = "truncate" => (error' = error /\ truncs' = truncs)]_vars
C11_Witness ==
    /\ EndedNormally
    /\ truncs = 2
    /\ Len(reqlog) >= 2
    /\ handed_prod # <<>> /\ handed_wh # <<>>
    /\ \A i \in 1 .. Len(prod_table) : prod_table[i] # StaleRow

DestinationUntouched ==
    /\ truncs' = truncs
    /\ handed_prod' = handed_prod /\ handed_wh' = handed_wh
    /\ prod_table' = prod_table /\ wh_table' = wh_table

\* C12: connection release.  Once acquired the connection is closed exactly
\* once on every exit path of main (normal completion or a failure of
\* truncation, of a fetch, of a write or of the processing of a record): it
\* is open until main is left, closed when main has been left, never closed
\* twice, and no truncate and no write is issued once it is closed.
C12_ClosedExactlyOnce ==
    /\ [](/\ closes <= 1
          /\ conn = "open" => (closes = 0 /\ pc # "exit")
          /\ conn = "closed" => (closes = 1 /\ pc = "exit")
          /\ conn = "none" => (closes = 0 /\ (pc = "start" \/ error = "connect"))
          /\ (pc = "exit" /\ error # "connect") => (conn = "closed" /\ closes = 1)
          /\ pc \notin { "start", "exit" } => conn = "open")
    /\ [][conn = "closed" => (DestinationUntouched /\ conn' = conn)]_vars
C12_Witness ==
    /\ pc = "exit" /\ error = "process"
    /\ conn = "closed" /\ closes = 1
    /\ Len(yielded) = 2
    /\ handed_prod # <<>>
    /\ prod_table = handed_prod

\* TRUE when the last rows of sequence all are the rows last.
EndsWith(all, last) ==
    /\ Len(all) >= Len(last)
    /\ SubSeq(all, Len(all) - Len(last) + 1, Len(all)) = last

\* Every batch yielded so far has been taken by main, and the writes of its
\* rows have returned.
WritesReturned ==
    /\ batch_idx = Len(yielded)
    /\ prod_table = handed_prod /\ wh_table = handed_wh
    /\ EndsWith(handed_prod, CleanedProductRows(prod_rows))
    /\ EndsWith(handed_wh, CleanedWarehouseRows(wh_rows))

\* C13: strict sequencing.  A request (the first attempt of a fetch or a
\* retry of it) is issued only when the writes of every batch yielded so
\* far have returned; a fetch is started only when no other is in progress;
\* and rows are handed to the write capability only for the batch yielded
\* last, the product rows of a batch before its warehouse rows.
C13_StrictSequencing ==
    /\ [](pc = "request" => WritesReturned)
    /\ [][/\ reqlog' # reqlog =>
                (pc = "loop" /\ pc' = "request" /\ WritesReturned
                 /\ Len(reqlog') = Len(reqlog) + 1)
          /\ (handed_prod' # handed_prod \/ handed_wh' # handed_wh) =>
                (/\ batch_idx = Len(yielded) /\ batch = LastYielded
                 /\ reqlog' = reqlog /\ yielded' = yielded)
          /\ handed_prod' # handed_prod => pc = "write_prod"
          /\ handed_wh' # handed_wh =>
                (pc = "write_wh" /\ EndsWith(handed_prod, CleanedProductRows(prod_rows)))]_vars
C13_Witness ==
    /\ pc = "request"
    /\ Len(reqlog) = 2 /\ attempt = 1
    /\ Len(yielded) = 1
    /\ prod_rows # <<>> /\ wh_rows # <<>>
    /\ handed_prod = CleanedProductRows(prod_rows)
    /\ wh_table = CleanedWarehouseRows(wh_rows)

\* C14: fetch failure mid-run.  When a fetch has exhausted its retries the
\* run is ending with that failure; from then on no fetch and no write is
\* issued and nothing is truncated or rolled back; and the destination
\* tables hold the rows written for the batches yielded before it.
C14_FetchFailureAborts ==
    /\ [](error = "fetch" =>
            /\ pc \in { "finally", "exit" }
            /\ batch_idx = Len(yielded)
            /\ prod_table = handed_prod /\ wh_table = handed_wh
            /\ Len(prod_table) = prod_snap /\ Len(wh_table) = wh_snap
            /\ truncs = 2)
    /\ [][error = "fetch" =>
            (reqlog' = reqlog /\ yielded' = yielded /\ DestinationUntouched
             /\ error' = error)]_vars
C14_Witness ==
    /\ pc = "exit" /\ error = "fetch"
    /\ Len(reqlog) = 2 /\ Len(yielded) = 1
    /\ Len(prod_table) = 2 /\ wh_table # <<>>
    /\ prod_table[1].PRODUCT_ID = "p1" /\ prod_table[2].PRODUCT_ID = "p2"

\* The target columns of the frame a cleaning function returns, and those
\* of them that are quantity columns.
C15_Target == IF call = "clean_products_df" THEN PRODUCT_TARGET_COLS ELSE WAREHOUSE_TARGET_COLS
C15_Quantities == Range(C15_Target) \cap (PRODUCT_QTY_COLS \cup WAREHOUSE_QTY_COLS)
C15_Unparsable == { PyNone, PyStr(<< "a", "b", "c" >>) }

\* C15: schema conformance.  The frame clean_products_df or clean_wh_df
\* returns for a frame of flattener rows (empty or not) has exactly the
\* target columns in the target order and the rows of its argument, and
\* every quantity column of it holds an integer in every row, 0 where the
\* argument held a missing value or a text that is not a number.
C15_CleanedFrameConforms ==
    (call \in { "clean_products_df", "clean_wh_df" } /\ result.state = "returned") =>
        /\ result.value.columns = C15_Target
        /\ Len(result.value.rows) = Len(arg.rows)
        /\ \A i \in 1 .. Len(arg.rows) :
              /\ DOMAIN result.value.rows[i] = Range(C15_Target)
              /\ \A c \in C15_Quantities :
                    /\ result.value.rows[i][c].t = "Int64"
                    /\ arg.rows[i][c] \in C15_Unparsable => result.value.rows[i][c].v = 0

\* text.split(sep): the segments between the occurrences of sep; the empty
\* text has one (empty) segment.
RECURSIVE C16_Split(_, _)
C16_Split(s, sep) ==
    IF \A i \in 1 .. Len(s) : s[i] # sep THEN << s >>
    ELSE LET i == CHOOSE k \in 1 .. Len(s) :
                      s[k] = sep /\ \A j \in 1 .. k - 1 : s[j] # sep
         IN << SubSeq(s, 1, i - 1) >> \o C16_Split(SubSeq(s, i + 1, Len(s)), sep)

\* The text of a tag or cart element with the separator and the colon
\* replaced.
SanitisedText(s) ==
    [i \in 1 .. Len(s) |->
        CASE s[i] = "|" -> "/"
          [] s[i] = ":" -> FullWidthColon
          [] OTHER -> s[i]]

\* The segments of the returned text are the elements of the list items,
\* one each and in order.
C16_OneSegmentPerElement(items) ==
    LET segs == C16_Split(result.value, "|")
    IN /\ Len(segs) = Len(items)
       /\ \A i \in 1 .. Len(items) :
             /\ \A k \in 1 .. Len(segs[i]) : segs[i][k] # "|"
             /\ items[i].t = "str" => segs[i] = SanitisedText(items[i].s)
             /\ items[i].t = "none" => segs[i] = <<>>

C16_JoinedList ==
    /\ call \in { "_join_tags", "_join_carts" }
    /\ result.state = "returned"
    /\ arg.t = "list"

C16_Example ==
    (call = "_join_tags" /\ result.state = "returned"
     /\ arg = PyList(<< PyStr(<< "a", "|", "b" >>), PyStr(<< "c" >>) >>)) =>
        result.value = << "a", "/", "b", "|", "c" >>

\* C16 as stated: for any list of tag or cart elements, splitting the text
\* returned on the separator gives one segment per element, in order, each
\* text element sanitised; tags ["a|b", "c"] give "a/b|c".
C16_SplitRecoversElements ==
    /\ C16_JoinedList => C16_OneSegmentPerElement(arg.items)
    /\ C16_Example

\* C16, amended: the same for any list of at least one element (the text
\* returned for the empty list is empty, which splits into one segment).
C16_SplitRecoversElementsOfNonEmptyList ==
    /\ (C16_JoinedList /\ arg.items # <<>>) => C16_OneSegmentPerElement(arg.items)
    /\ (C16_JoinedList /\ arg.items = <<>>) => result.value = <<>>
    /\ C16_Example
C16_Witness ==
    /\ call = "_join_tags"
    /\ arg = PyList(<< PyStr(<< "a", "|", "b" >>), PyStr(<< "c" >>) >>)
    /\ result = Returned(<< "a", "/", "b", "|", "c" >>)

LastRequest == reqlog[Len(reqlog)]

\* The cursor, in OFFSET mode, has received a non-empty batch.
C17_ReceivedInOffsetMode ==
    /\ pc = "decode" /\ data # NotJson
    /\ ~use_page_mode
    /\ ExtractBatch(data) # <<>>

\* ... whose first id is non-null and is the first id of the batch yielded
\* last.
C17_RepeatsFirstId ==
    /\ C17_ReceivedInOffsetMode
    /\ yielded # <<>>
    /\ FirstId(ExtractBatch(data)) # None
    /\ FirstId(ExtractBatch(data)) = FirstId(LastYielded)

\* C17: the stall transition.  In OFFSET mode a batch whose first id is
\* non-null and repeats the first id of the batch yielded last is not
\* yielded: the cursor keeps offset, switches to PAGE mode with
\* page = (offset div limit) + 2 for the offset the request carried, and its
\* next request carries that page with the same limit.  Nothing else
\* switches the mode; in particular a batch whose first id is null is
\* yielded.
C17_StallTransition ==
    [][/\ C17_RepeatsFirstId =>
            /\ yielded' = yielded
            /\ offset' = offset /\ offset = LastRequest.value
            /\ LastRequest.mode = "offset"
            /\ use_page_mode'
            /\ page' = (LastRequest.value \div LastRequest.limit) + 2
            /\ pc' = "loop"
       /\ (C17_ReceivedInOffsetMode /\ ~C17_RepeatsFirstId) =>
            /\ use_page_mode' = use_page_mode
            /\ yielded' = Append(yielded, ExtractBatch(data))
       /\ use_page_mode' # use_page_mode => C17_RepeatsFirstId
       /\ (pc = "loop" /\ use_page_mode /\ reqlog' # reqlog) =>
            reqlog' = Append(reqlog, [limit |-> LastRequest.limit, mode |-> "page",
                                      value |-> page])]_vars
C17_Witness ==
    /\ pc = "request" /\ use_page_mode /\ switches = 1
    /\ limit_each = 2
    /\ Len(yielded) = 2 /\ offset = 4
    /\ Len(reqlog) = 4
    /\ reqlog[3] = [limit |-> 2, mode |-> "offset", value |-> 4]
    /\ reqlog[4] = [limit |-> 2, mode |-> "page", value |-> 4]

\* The text under the first of keys that holds a non-empty text in mapping
\* m, the empty text when there is none.
RECURSIVE C18_FirstNonEmpty(_, _)
C18_FirstNonEmpty(m, keys) ==
    IF keys = <<>> THEN <<>>
    ELSE IF Head(keys) \in DOMAIN m /\ m[Head(keys)].t = "str" /\ m[Head(keys)].s # <<>>
    THEN m[Head(keys)].s
    ELSE C18_FirstNonEmpty(m, Tail(keys))

\* "<vendor>:<name>", without the colon when one side is empty.
C18_Expected(m) ==
    LET vendor == SanitisedText(C18_FirstNonEmpty(m, << "vendor", "channel", "platform", "site" >>))
        name == SanitisedText(C18_FirstNonEmpty(m, << "name", "store", "account" >>))
    IN IF vendor = <<>> THEN name
       ELSE IF name = <<>> THEN vendor
       ELSE vendor \o << ":" >> \o name

C19_PageModeStep ==
    [][use_page_mode =>
          /\ use_page_mode'
          /\ offset' = offset /\ last_first_id' = last_first_id
          /\ reqlog' # reqlog =>
                reqlog' = Append(reqlog, [limit |-> limit_each, mode |-> "page",
                                          value |-> page])
          /\ page' = IF pc = "resume" /\ Len(batch) >= limit_each
                      THEN page + 1 ELSE page
          /\ (pc = "resume" /\ Len(batch) >= limit_each) => batch = LastYielded
          /\ (pc = "decode" /\ data # NotJson /\ ExtractBatch(data) # <<>>) =>
                yielded' = Append(yielded, ExtractBatch(data))]_vars
C19_Witness ==
    /\ use_page_mode /\ pc = "request"
    /\ Len(yielded) = 2
    /\ FirstId(yielded[2]) # None
    /\ FirstId(yielded[2]) = FirstId(yielded[1])
    /\ Len(reqlog) = 4
    /\ reqlog[3].mode = "page" /\ reqlog[4].mode = "page"
    /\ reqlog[4].value = reqlog[3].value + 1
    /\ page = reqlog[4].value

\* C20: the offset invariant.  While the cursor is in OFFSET mode and a
\* fetch is due or in progress, offset is the number of records yielded so
\* far and the remembered first id is that of the batch yielded last (null
\* when nothing was yielded); the request in progress carries that offset;
\* and offset changes only when the cursor is resumed after a yielded batch
\* that is not shorter than the limit, by the length of that batch.
C20_OffsetIsRecordsYielded ==
    /\ []((~use_page_mode /\ pc \in { "loop", "request", "decode" }) =>
            /\ offset = Len(Concat(yielded))
            /\ last_first_id = IF yielded = <<>> THEN None ELSE FirstId(LastYielded)
            /\ pc \in { "request", "decode" } =>
                  LastRequest = [limit |-> limit_each, mode |-> "offset",
                                 value |-> Len(Concat(yielded))])
    /\ [][offset' # offset =>
            /\ pc = "resume" /\ ~use_page_mode
            /\ batch = LastYielded /\ Len(batch) >= limit_each
            /\ offset' = offset + Len(batch)
            /\ last_first_id' = FirstId(batch)]_vars
C20_Witness ==
    /\ ~use_page_mode /\ pc = "request"
    /\ shape = "overlong" /\ limit_each = 1
    /\ Len(yielded) = 1 /\ Len(yielded[1]) = 2
    /\ offset = 2
    /\ LastRequest = [limit |-> 1, mode |-> "offset", value |-> 2]
    /\ last_first_id = FirstId(yielded[1])

====
